---- MODULE Spec2Model ----
(***************************************************************************)
(* Streaming Device State Reconciler of the medical dashboard:             *)
(*   - useSSEStream (src/hooks/useSSEStream.ts): the React hook that owns  *)
(*     the EventSource transport, the reconnect timers and the device      *)
(*     collection,                                                         *)
(*   - SSEService (src/services/sseService.ts): the class-based connection *)
(*     manager with its own backoff.                                       *)
(* EventSource and setTimeout are the browser's: a handle is CONNECTING,   *)
(* OPEN or CLOSED; an error event either leaves the handle CONNECTING (the *)
(* browser re-establishes the connection itself) or CLOSED (the browser    *)
(* failed the connection); close() makes it CLOSED and silences it.        *)
(***************************************************************************)
EXTENDS Integers, Sequences, FiniteSets, TLC

\* ------------------------------------------------------------------ bounds
\* The collection capacity: the source keeps 100 entries (slice(0, 100));
\* the model keeps Capacity of them so that eviction is reachable.
Capacity == 2
\* Record timestamps are instants 1..MaxTime (milliseconds).
MaxTime == 2
\* EventSource handles that can be live (not CLOSED) at the same moment.
MaxHandles == 2
\* setTimeout timers that can be pending at the same moment.
MaxTimers == 2
\* The maxReconnects arguments the hook is mounted with: a small one and
\* one that lets the sixth attempt be scheduled.
MinLimit == 1
MaxLimit == 6
\* SSEService: transport errors are delivered while fewer than MaxErrors of
\* them have happened since the last successful open (the hook: two more
\* than its limit).
MaxErrors == MaxLimit + 2
\* State updates that can be queued before React renders
MaxQueue == 2
\* Health requests issued in one behaviour
MaxProbes == 2
\* Prediction requests issued in one behaviour
MaxFetches == 3
\* The longest collection handed to sortByRiskPriority, to getRiskStats (of
\* 40 records 23 make the percentage 57.5, of 8 records one makes 12.5; in
\* every order of the labels up to StatsMixLen records) and to
\* useDeviceFilters.
SortLen == 3
StatsLen == 40
StatsMixLen == 4
FilterLen == 2
PureLen == 2

\* ------------------------------------------------------- values and records
\* An optional value is the empty sequence (null, undefined) or <<value>>.
NULL == <<>>
Some(v) == <<v>>

\* One device more than the capacity, so that a full collection can meet a
\* device it does not hold.
DeviceNames == 1..(Capacity + 1)

\* A timestamp string: an instant and one of two ISO spellings of it
\* (with and without the fractional part), both parsed to the same instant.
Spellings == {"Z", ".000Z"}
Timestamps == (1..MaxTime) \X Spellings

StreamLabels == {"Low"}

PredictionRecord(d, l, ts) ==
    [telemetry |-> [DeviceName |-> d], final |-> [label |-> l], timestamp |-> ts]

StreamRecords ==
    {PredictionRecord(d, l, ts) : d \in DeviceNames, l \in StreamLabels, ts \in Timestamps}

\* new Date(ts).getTime()
getTime(ts) == ts[1]

Min(a, b) == IF a <= b THEN a ELSE b

\* ------------------------------------------------------------ Record Merger
\* Mutant: the filter is left out, every entry is kept.
filterKeepAll(currentData, deviceName) == currentData

\* Mutant: === for !==, the entries of the device are the ones kept.
filterSameDevice(currentData, deviceName) ==
    SelectSeq(currentData, LAMBDA p : p.telemetry.DeviceName = deviceName)

\* Array.prototype.filter(p => p.telemetry.DeviceName !== deviceName)
filterOtherDevices(currentData, deviceName) ==
    SelectSeq(currentData, LAMBDA p : p.telemetry.DeviceName # deviceName)

\* Mutant: no cut at the capacity.
sliceAll(s, n) == s

\* Array.prototype.slice(0, n)
slice(s, n) == SubSeq(s, 1, Min(Len(s), n))

\* Mutant: the operands of the subtraction swapped, an ascending sort.
compareAsc(a, b) == getTime(a.timestamp) - getTime(b.timestamp)

\* The comparator of the sort: (a, b) => getTime(b.timestamp) - getTime(a.timestamp)
compareDesc(a, b) == getTime(b.timestamp) - getTime(a.timestamp)

\* Insert x behind every element that does not sort after it (stable).
RECURSIVE insertSorted(_, _)
insertSorted(sorted, x) ==
    IF sorted = <<>> THEN <<x>>
    ELSE IF compareDesc(sorted[Len(sorted)], x) <= 0
         THEN Append(sorted, x)
         ELSE Append(insertSorted(SubSeq(sorted, 1, Len(sorted) - 1), x),
                     sorted[Len(sorted)])

\* Array.prototype.sort with compareDesc: a stable sort (ECMAScript 2019).
RECURSIVE sortDesc(_)
sortDesc(s) ==
    IF s = <<>> THEN <<>>
    ELSE insertSorted(sortDesc(SubSeq(s, 1, Len(s) - 1)), s[Len(s)])

\* Mutant: sort first and cut afterwards, so that the cut drops whatever
\* sorts last, the incoming record included.
updateSortThenSlice(currentData, newPrediction) ==
    LET deviceName == newPrediction.telemetry.DeviceName
        filtered   == filterOtherDevices(currentData, deviceName)
    IN  slice(sortDesc(<<newPrediction>> \o filtered), Capacity)

\* Mutant: latest timestamp wins, an incoming record older than the
\* device's resident entry is dropped.
updateKeepNewest(currentData, newPrediction) ==
    LET deviceName == newPrediction.telemetry.DeviceName
        filtered   == filterOtherDevices(currentData, deviceName)
        updated    == slice(<<newPrediction>> \o filtered, Capacity)
    IN  IF \E i \in 1..Len(currentData) :
              /\ currentData[i].telemetry.DeviceName = deviceName
              /\ getTime(currentData[i].timestamp) > getTime(newPrediction.timestamp)
        THEN currentData
        ELSE sortDesc(updated)

updateDeviceData(currentData, newPrediction) ==
    LET deviceName == newPrediction.telemetry.DeviceName
        filtered   == filterOtherDevices(currentData, deviceName)
        updated    == slice(<<newPrediction>> \o filtered, Capacity)
    IN  sortDesc(updated)

\* --------------------------------------------------------------- the state
VARIABLES
    component,            \* which connection manager the view instantiates
    urlOk,                \* whether new EventSource(url) accepts the url
    maxReconnects,        \* useSSEStream's second argument
    mounted,              \* the hook's effect has run
    data, isConnected, error, reconnectCount,     \* useSSEStream's state
    eventSourceRef, reconnectTimeoutRef,          \* useSSEStream's refs
    updates,              \* the state updates queued for React's next render
    eagerState,           \* what the updater at the head of the queue returned
                          \* when React ran it inside setState (NULL: it has
                          \* not run)
    handles,              \* the browser's EventSource objects: readyState
    timers,               \* the browser's pending timeouts (their ids)
    lastDelay,            \* the delay given to the last setTimeout call
    eventSource, reconnectAttempts, reconnectInterval,   \* SSEService's fields
    lastCall,             \* the handler that ran last
    lastPayload,          \* the payload of the last stream message
    lastRec,              \* the record the last render merged last, if it merged one
    prevData,             \* the collection that merge was applied to
    lastBatch,            \* the number of records the last render merged
    lastMerged,           \* per device, the record merged for it last (forgotten
                          \* once the collection holds no entry of the device)
    errorsSinceOpen,      \* transport errors since the last successful open
    errorsSinceReset,     \* ... since the last open or explicit reconnect()
    unmounted,            \* the cleanup of the hook's effect has run
    fault,                \* an exception left the hook's code uncaught
    teardown,             \* the calls the cleanups have made, in their order
    health,               \* useHealthCheck's state
    healthMounted,        \* useHealthCheck's effect has run: the interval is set
    healthUnmounted,      \* the cleanup of useHealthCheck's effect has run
    probes,               \* the health requests in flight
    probeSeq,             \* the number of health requests issued
    probeResp,            \* the response the last completed probe got
    shownProbe,           \* the probe whose setHealth wrote health (0: none)
    options,              \* usePredictions' argument
    predMounted,          \* usePredictions' effect has run
    predData, loading, predError,     \* usePredictions' data, loading, error
    fetches,              \* the prediction requests in flight
    fetchSeq,             \* the number of prediction requests issued
    fetchResp,            \* the response the last completed request got
    shownFetch,           \* the request whose completion wrote data (0: none)
    predictions,          \* the collection handed to riskHelpers and to
                          \* useDeviceFilters
    updated,              \* what updateDeviceData returned to a direct caller
    sorted,               \* what sortByRiskPriority returned last
    stats,                \* what getRiskStats returned last
    filters,              \* useDeviceFilters' state
    filteredData          \* useDeviceFilters' filteredData

hookVars == <<mounted, data, isConnected, error, reconnectCount,
              eventSourceRef, reconnectTimeoutRef, updates, eagerState>>
svcVars == <<eventSource, reconnectAttempts, reconnectInterval>>
mergeObs == <<lastPayload, lastRec, prevData, lastBatch, lastMerged>>
config == <<component, urlOk, maxReconnects>>
managerVars == <<hookVars, svcVars, handles, timers, lastDelay, mergeObs,
                 errorsSinceOpen, errorsSinceReset>>
lifeVars == <<unmounted, fault, teardown>>
healthVars == <<health, healthMounted, healthUnmounted, probes, probeSeq, probeResp,
                shownProbe>>
fetchVars == <<options, predMounted, predData, loading, predError, fetches, fetchSeq,
               fetchResp, shownFetch>>
helperVars == <<predictions, updated, sorted, stats, filters, filteredData>>
appVars == <<healthVars, fetchVars, helperVars>>
viewVars == <<lifeVars, appVars>>
vars == <<config, hookVars, svcVars, handles, timers, lastDelay, lastCall, mergeObs,
          errorsSinceOpen, errorsSinceReset, viewVars>>

HandleIds == 1..MaxHandles
TimerIds == 1..MaxTimers

\* SSEService.maxReconnectAttempts
maxReconnectAttempts == 5
\* SSEService.reconnectInterval starts at, and an open resets it to, 1000
BaseInterval == 1000
\* SSEService caps the doubled interval at 30000
MaxInterval == 30000

NoError == NULL
ErrParse == <<"Failed to parse prediction data">>
ErrMaxRetry == <<"Connection failed after maximum retry attempts">>
ErrEstablish == <<"Failed to establish SSE connection">>
\* `Connection lost. Reconnecting in ${delay/1000}s...`
ErrLost(delay) == <<"Connection lost. Reconnecting in ", delay \div 1000, "s...">>

Live(hs) == {h \in HandleIds : hs[h] # "CLOSED"}

\* ------------------------------------------------------------- the browser
\* new EventSource(url): a fresh object, CONNECTING. A CLOSED object is
\* silent for good, so its slot stands for the next fresh object.
HasFreeHandle(hs) == \E h \in HandleIds : hs[h] = "CLOSED"
FreeHandle(hs) == CHOOSE h \in HandleIds :
                      hs[h] = "CLOSED" /\ \A g \in HandleIds : g < h => hs[g] # "CLOSED"

\* EventSource.close()
close(hs, h) == IF h = 0 THEN hs ELSE [hs EXCEPT ![h] = "CLOSED"]

\* setTimeout(cb, delay): a fresh timer id
HasFreeTimer(ts) == ts # TimerIds
FreeTimer(ts) == CHOOSE t \in TimerIds \ ts : \A u \in TimerIds \ ts : t <= u

\* clearTimeout(id): nothing when the id is undefined or no longer pending
clearTimeout(ts, t) == ts \ {t}

\* Arrays are objects: a call works on a heap, a record that gives every
\* array the call can reach its content. filter, slice and the spread make
\* a new array and leave the receiver as it is:
newArray(heap, ref, content) == [heap EXCEPT ![ref] = content]
\* Array.prototype.sort sorts the receiver in place and returns it: the
\* receiver holds its entries in the sorted order afterwards.
sortInPlace(heap, ref, inOrder) == [heap EXCEPT ![ref] = inOrder]

\* DeviceFilter: a field is unset (NULL) or holds a value
NoFilters == [deviceName |-> NULL, riskLevel |-> NULL, timeRange |-> NULL]

\* ------------------------------------------------------------ useSSEStream
InitManagers ==
    /\ component \in {"useSSEStream", "SSEService"}
    /\ urlOk \in BOOLEAN
    /\ maxReconnects \in {MinLimit, MaxLimit}
    /\ mounted = FALSE
    /\ data = <<>>
    /\ isConnected = FALSE
    /\ error = NoError
    /\ reconnectCount = 0
    /\ eventSourceRef = 0
    /\ reconnectTimeoutRef = 0
    /\ updates = <<>>
    /\ eagerState = NULL
    /\ handles = [h \in HandleIds |-> "CLOSED"]
    /\ timers = {}
    /\ lastDelay = 0
    /\ eventSource = 0
    /\ reconnectAttempts = 0
    /\ reconnectInterval = BaseInterval
    /\ lastCall = "init"
    /\ lastPayload = NULL
    /\ lastRec = NULL
    /\ prevData = <<>>
    /\ lastBatch = 0
    /\ lastMerged = [d \in DeviceNames |-> NULL]
    /\ errorsSinceOpen = 0
    /\ errorsSinceReset = 0
    /\ unmounted = FALSE
    /\ fault = FALSE
    /\ teardown = <<>>

\* useHealthCheck: useState
InitHealth ==
    /\ health = [status |-> "unknown", isHealthy |-> FALSE, lastCheck |-> NULL,
                 error |-> NULL]
    /\ healthMounted = FALSE
    /\ healthUnmounted = FALSE
    /\ probes = {}
    /\ probeSeq = 0
    /\ probeResp = NULL
    /\ shownProbe = 0

\* usePredictions: useState
InitFetch ==
    /\ options = NULL
    /\ predMounted = FALSE
    /\ predData = <<>>
    /\ loading = TRUE
    /\ predError = NULL
    /\ fetches = {}
    /\ fetchSeq = 0
    /\ fetchResp = NULL
    /\ shownFetch = 0

\* useDeviceFilters: useState({}), on the collection it is given; the
\* riskHelpers not called yet.
InitHelpers(inputs) ==
    /\ predictions \in inputs
    /\ updated = NULL
    /\ sorted = NULL
    /\ stats = NULL
    /\ filters = NoFilters
    /\ filteredData = predictions

Init == InitManagers /\ InitHealth /\ InitFetch /\ InitHelpers({<<>>})

\* connect(), on the handles hs: the new handle goes to eventSourceRef; a
\* url the constructor rejects ends in the catch block.
connect(hs) ==
    IF urlOk
    THEN [handles |-> [hs EXCEPT ![FreeHandle(hs)] = "CONNECTING"],
          ref |-> FreeHandle(hs), threw |-> FALSE]
    ELSE [handles |-> hs, ref |-> eventSourceRef, threw |-> TRUE]

CanConnect(hs) == urlOk => HasFreeHandle(hs)

\* Mutant: the cap of the delay is left out.
backoffNoCap(newReconnectCount) == 1000 * 2^(newReconnectCount - 1)

\* Math.min(1000 * Math.pow(2, newReconnectCount - 1), 16000)
backoffDelay(newReconnectCount) == Min(1000 * 2^(newReconnectCount - 1), 16000)

\* newPrediction.telemetry.DeviceName throws a TypeError when the value has
\* no telemetry
HasTelemetry(value) == "telemetry" \in DOMAIN value

\* A state update a handler has queued with setState(prev => ...). React
\* runs the queued updaters, in the order of the calls, when it renders the
\* component the next time. When no update is waiting, React may run the
\* updater at once, inside setState: the update is queued with the state the
\* updater returned, and the render takes that state instead of running the
\* updater again. Whether it does is React's choice (it looks at the work
\* left on the component's two fibers), so both outcomes are kept. What the
\* updater throws inside setState is dropped, and the render runs it again.
\* An updater that does nothing but return a state returns the same state at
\* either moment; the updater of onerror also sets the timer, so for it the
\* moment is kept (eagerState).
\* The kinds: "open" (onopen), "error" (onerror), "parse" (the catch block of
\* onmessage), "reset" (reconnect), "establish" (the catch block of connect)
\* and "message" (onmessage, with the value parsed).
Upd(kind) == [kind |-> kind]
UpdMessage(value) == [kind |-> "message", value |-> value]

\* The queue has room for n more updates
Room(n) == Len(updates) + n <= MaxQueue

\* What the updaters read and write when React runs them: the state of the
\* hook (prev), and through the closure the timers and reconnectTimeoutRef;
\* merges: the records the run has merged; threw: an updater threw; stuck:
\* no timer id is left for setTimeout.
HookWorld ==
    [data |-> data, isConnected |-> isConnected, error |-> error,
     reconnectCount |-> reconnectCount, timers |-> timers,
     reconnectTimeoutRef |-> reconnectTimeoutRef, lastDelay |-> lastDelay,
     lastRec |-> NULL, prevData |-> <<>>, merges |-> 0,
     lastMerged |-> lastMerged,
     errorsSinceOpen |-> errorsSinceOpen, errorsSinceReset |-> errorsSinceReset,
     last |-> "none", threw |-> FALSE, stuck |-> FALSE]

\* Mutant: the open updater leaves the attempt counter alone.
openUpdaterKeepCount(w) ==
    [w EXCEPT !.isConnected = TRUE, !.error = NoError,
              !.errorsSinceOpen = 0, !.errorsSinceReset = 0, !.last = "open"]

\* Mutant: the open updater returns a whole new state object instead of
\* spreading prev, and the collection is gone.
openUpdaterFreshState(w) ==
    [w EXCEPT !.data = <<>>, !.isConnected = TRUE, !.error = NoError,
              !.reconnectCount = 0,
              !.errorsSinceOpen = 0, !.errorsSinceReset = 0, !.last = "open"]

\* The updater of onopen
openUpdater(w) ==
    [w EXCEPT !.isConnected = TRUE, !.error = NoError, !.reconnectCount = 0,
              !.errorsSinceOpen = 0, !.errorsSinceReset = 0, !.last = "open"]

\* The updater of onerror: it is the updater that calls setTimeout and
\* writes reconnectTimeoutRef.
errorUpdater(w) ==
    LET newReconnectCount == w.reconnectCount + 1
        counted == [w EXCEPT !.errorsSinceOpen = @ + 1, !.errorsSinceReset = @ + 1,
                             !.last = "error"]
    IN  IF newReconnectCount <= maxReconnects
        THEN LET delay == backoffDelay(newReconnectCount) IN
             IF HasFreeTimer(w.timers)
             THEN [counted EXCEPT !.timers = @ \cup {FreeTimer(w.timers)},
                                  !.lastDelay = delay,
                                  !.reconnectTimeoutRef = FreeTimer(w.timers),
                                  !.isConnected = FALSE,
                                  !.error = ErrLost(delay),
                                  !.reconnectCount = newReconnectCount]
             ELSE [w EXCEPT !.stuck = TRUE]
        ELSE [counted EXCEPT !.isConnected = FALSE,
                             !.error = ErrMaxRetry,
                             !.reconnectCount = newReconnectCount]

\* Mutant: the merge reads the collection of the last render (state.data
\* of the closure) instead of prev.data, so that a record merged earlier in
\* the same render is lost.
messageUpdaterStale(w, prediction) ==
    IF HasTelemetry(prediction)
    THEN LET merged == updateDeviceData(data, prediction) IN
         [w EXCEPT !.data = merged,
                   !.lastRec = Some(prediction),
                   !.prevData = data,
                   !.merges = @ + 1,
                   !.lastMerged =
                       [d \in DeviceNames |->
                           IF d = prediction.telemetry.DeviceName THEN Some(prediction)
                           ELSE IF \E i \in 1..Len(merged) :
                                       merged[i].telemetry.DeviceName = d
                                THEN w.lastMerged[d]
                                ELSE NULL],
                   !.last = "message"]
    ELSE [w EXCEPT !.threw = TRUE]

\* The updater of onmessage: data: updateDeviceData(prev.data, prediction),
\* which throws when the value has no telemetry.
messageUpdater(w, prediction) ==
    IF HasTelemetry(prediction)
    THEN LET merged == updateDeviceData(w.data, prediction) IN
         [w EXCEPT !.data = merged,
                   !.lastRec = Some(prediction),
                   !.prevData = w.data,
                   !.merges = @ + 1,
                   !.lastMerged =
                       [d \in DeviceNames |->
                           IF d = prediction.telemetry.DeviceName THEN Some(prediction)
                           ELSE IF \E i \in 1..Len(merged) :
                                       merged[i].telemetry.DeviceName = d
                                THEN w.lastMerged[d]
                                ELSE NULL],
                   !.last = "message"]
    ELSE [w EXCEPT !.threw = TRUE]

\* The updater of the catch block of onmessage
parseUpdater(w) == [w EXCEPT !.error = ErrParse, !.last = "parse"]

\* The updater of reconnect()
resetUpdater(w) == [w EXCEPT !.reconnectCount = 0, !.errorsSinceReset = 0,
                             !.last = "reset"]

\* The updater of the catch block of connect()
establishUpdater(w) == [w EXCEPT !.isConnected = FALSE, !.error = ErrEstablish,
                                 !.last = "establish"]

applyUpdate(w, u) ==
    CASE u.kind = "open" -> openUpdater(w)
      [] u.kind = "error" -> errorUpdater(w)
      [] u.kind = "message" -> messageUpdater(w, u.value)
      [] u.kind = "parse" -> parseUpdater(w)
      [] u.kind = "reset" -> resetUpdater(w)
      [] u.kind = "establish" -> establishUpdater(w)

\* React runs the queue from its head; an updater that throws ends the run.
RECURSIVE applyAll(_, _)
applyAll(w, queue) ==
    IF queue = <<>> \/ w.threw \/ w.stuck THEN w
    ELSE applyAll(applyUpdate(w, Head(queue)), Tail(queue))

\* The updates connect() queues: the one of its catch block
connectUpdates(c) == IF c.threw THEN <<Upd("establish")>> ELSE <<>>

\* useEffect(() => { connect(); ... }, [url])
Mount ==
    /\ component = "useSSEStream"
    /\ ~unmounted
    /\ ~mounted
    /\ CanConnect(handles)
    /\ LET c == connect(handles) IN
        /\ Room(Len(connectUpdates(c)))
        /\ handles' = c.handles
        /\ eventSourceRef' = c.ref
        /\ updates' = updates \o connectUpdates(c)
    /\ mounted' = TRUE
    /\ lastCall' = "mount"
    /\ UNCHANGED <<config, viewVars, data, isConnected, error, reconnectCount,
                   reconnectTimeoutRef, eagerState, timers, lastDelay, svcVars,
                   mergeObs, errorsSinceOpen, errorsSinceReset>>

\* eventSource.onopen: the handler queues its update
OnOpen(h) ==
    /\ component = "useSSEStream"
    /\ ~unmounted
    /\ handles[h] = "CONNECTING"
    /\ Room(1)
    /\ handles' = [handles EXCEPT ![h] = "OPEN"]
    /\ updates' = Append(updates, Upd("open"))
    /\ lastCall' = "onopen"
    /\ UNCHANGED <<config, viewVars, mounted, data, isConnected, error, reconnectCount,
                   eventSourceRef, reconnectTimeoutRef, eagerState, timers, lastDelay,
                   svcVars, mergeObs, errorsSinceOpen, errorsSinceReset>>

\* eventSource.onerror; the browser leaves the handle CONNECTING (it will
\* re-establish the connection itself) or CLOSED (it failed the connection).
\* The handler queues its update. The updater sets the timer: inside
\* setState when React runs it there, which it can when no update is
\* waiting, and otherwise in the next render.
\* Errors are delivered until two more than the limit have happened since
\* the last open.
OnError(h, fatal) ==
    /\ component = "useSSEStream"
    /\ ~unmounted
    /\ handles[h] # "CLOSED"
    /\ errorsSinceOpen + Len(SelectSeq(updates, LAMBDA u : u.kind = "error"))
           < maxReconnects + 2
    /\ Room(1)
    /\ handles' = [handles EXCEPT ![h] = IF fatal THEN "CLOSED" ELSE "CONNECTING"]
    /\ updates' = Append(updates, Upd("error"))
    /\ \/ UNCHANGED <<timers, reconnectTimeoutRef, lastDelay, eagerState>>
       \/ /\ updates = <<>>
          /\ LET w == errorUpdater(HookWorld) IN
              /\ ~w.stuck
              /\ timers' = w.timers
              /\ reconnectTimeoutRef' = w.reconnectTimeoutRef
              /\ lastDelay' = w.lastDelay
              /\ eagerState' = Some(w)
    /\ lastCall' = "onerror"
    /\ UNCHANGED <<config, viewVars, mounted, data, isConnected, error, reconnectCount,
                   eventSourceRef, svcVars, mergeObs, errorsSinceOpen,
                   errorsSinceReset>>

\* The callback of the reconnect timer: connect()
TimerFire(t) ==
    /\ component = "useSSEStream"
    /\ ~unmounted
    /\ t \in timers
    /\ CanConnect(handles)
    /\ timers' = timers \ {t}
    /\ LET c == connect(handles) IN
        /\ Room(Len(connectUpdates(c)))
        /\ handles' = c.handles
        /\ eventSourceRef' = c.ref
        /\ updates' = updates \o connectUpdates(c)
    /\ lastCall' = "timer"
    /\ UNCHANGED <<config, viewVars, mounted, data, isConnected, error, reconnectCount,
                   reconnectTimeoutRef, eagerState, lastDelay, svcVars, mergeObs,
                   errorsSinceOpen, errorsSinceReset>>

\* reconnect(): close, clearTimeout, setState(prev => ({...prev,
\* reconnectCount: 0})), connect()
Reconnect ==
    /\ component = "useSSEStream"
    /\ ~unmounted
    /\ mounted
    /\ LET closed == close(handles, eventSourceRef) IN
        /\ CanConnect(closed)
        /\ LET c == connect(closed) IN
            /\ Room(1 + Len(connectUpdates(c)))
            /\ handles' = c.handles
            /\ eventSourceRef' = c.ref
            /\ updates' = Append(updates, Upd("reset")) \o connectUpdates(c)
    /\ timers' = clearTimeout(timers, reconnectTimeoutRef)
    /\ lastCall' = "reconnect"
    /\ UNCHANGED <<config, viewVars, mounted, data, isConnected, error, reconnectCount,
                   reconnectTimeoutRef, eagerState, lastDelay, svcVars, mergeObs,
                   errorsSinceOpen, errorsSinceReset>>

\* The payload of a stream message: text that JSON.parse rejects, the JSON
\* text of a record, or the JSON text of another value.
Malformed == <<>>
RecordPayloads == {Some(r) : r \in StreamRecords}
\* A JSON object without telemetry
NoTelemetry == [final |-> [label |-> "Low"], timestamp |-> <<1, "Z">>]
OtherPayloads == {Some(NoTelemetry)}
Payloads == RecordPayloads \cup OtherPayloads \cup {Malformed}

\* The cleanup of the effect: closes the handle and clears the timer the
\* refs hold.
cleanup(hs, ts, timeoutRef) ==
    [handles |-> close(hs, eventSourceRef),
     timers  |-> clearTimeout(ts, timeoutRef)]

\* The calls of the cleanup in the order of its statements:
\* if (eventSourceRef.current) close(), then
\* if (reconnectTimeoutRef.current) clearTimeout(...)
cleanupCalls(timeoutRef) ==
    (IF eventSourceRef # 0 THEN <<"close">> ELSE <<>>)
    \o (IF timeoutRef # 0 THEN <<"clearTimeout">> ELSE <<>>)

\* eventSource.onmessage. The try block parses the payload and queues the
\* update that merges the value; the catch block queues the update of the
\* error field. The handler returns before any updater runs.
OnMessage(h, payload) ==
    /\ component = "useSSEStream"
    /\ ~unmounted
    /\ handles[h] = "OPEN"
    /\ Room(1)
    /\ updates' = Append(updates, IF payload = Malformed THEN Upd("parse")
                                  ELSE UpdMessage(payload[1]))
    /\ lastPayload' = payload
    /\ lastRec' = NULL
    /\ prevData' = <<>>
    /\ lastBatch' = 0
    /\ lastCall' = "onmessage"
    /\ UNCHANGED <<config, viewVars, mounted, data, isConnected, error, reconnectCount,
                   eventSourceRef, reconnectTimeoutRef, eagerState, handles, timers,
                   lastDelay, svcVars, lastMerged, errorsSinceOpen, errorsSinceReset>>

\* React renders the component: it runs the queued updaters in their order
\* and commits the state they give; for an update whose updater ran inside
\* setState it takes the state that run returned, and the timers and the
\* timer ref as they are by now. What an updater throws is thrown while
\* rendering, outside the try block of the handler that queued it: the state
\* is not committed and React unmounts the component, which runs the cleanup
\* of its effect.
Render ==
    /\ component = "useSSEStream"
    /\ ~unmounted
    /\ updates # <<>>
    /\ LET w == IF eagerState = NULL
                THEN applyAll(HookWorld, updates)
                ELSE applyAll([eagerState[1] EXCEPT
                                   !.timers = timers,
                                   !.reconnectTimeoutRef = reconnectTimeoutRef,
                                   !.lastDelay = lastDelay],
                              Tail(updates))
       IN
        /\ ~w.stuck
        /\ timers' = IF w.threw
                     THEN cleanup(handles, w.timers, w.reconnectTimeoutRef).timers
                     ELSE w.timers
        /\ handles' = IF w.threw
                      THEN cleanup(handles, w.timers, w.reconnectTimeoutRef).handles
                      ELSE handles
        /\ reconnectTimeoutRef' = w.reconnectTimeoutRef
        /\ lastDelay' = w.lastDelay
        /\ errorsSinceOpen' = w.errorsSinceOpen
        /\ errorsSinceReset' = w.errorsSinceReset
        /\ IF w.threw
           THEN /\ fault' = TRUE
                /\ unmounted' = TRUE
                /\ teardown' = teardown \o cleanupCalls(w.reconnectTimeoutRef)
                /\ lastCall' = "fault"
                /\ UNCHANGED <<data, isConnected, error, reconnectCount, lastRec,
                               prevData, lastBatch, lastMerged>>
           ELSE /\ data' = w.data
                /\ isConnected' = w.isConnected
                /\ error' = w.error
                /\ reconnectCount' = w.reconnectCount
                /\ lastRec' = w.lastRec
                /\ prevData' = w.prevData
                /\ lastBatch' = w.merges
                /\ lastMerged' = w.lastMerged
                /\ lastCall' = w.last
                /\ UNCHANGED lifeVars
    /\ updates' = <<>>
    /\ eagerState' = NULL
    /\ UNCHANGED <<config, appVars, mounted, eventSourceRef, svcVars, lastPayload>>

\* The cleanup of useEffect, when the component unmounts; React drops the
\* updates that are queued.
Unmount ==
    /\ component = "useSSEStream"
    /\ mounted
    /\ ~unmounted
    /\ handles' = cleanup(handles, timers, reconnectTimeoutRef).handles
    /\ timers' = cleanup(handles, timers, reconnectTimeoutRef).timers
    /\ unmounted' = TRUE
    /\ teardown' = teardown \o cleanupCalls(reconnectTimeoutRef)
    /\ updates' = <<>>
    /\ eagerState' = NULL
    /\ lastCall' = "unmount"
    /\ UNCHANGED <<config, appVars, fault, mounted, data, isConnected, error,
                   reconnectCount, eventSourceRef, reconnectTimeoutRef, lastDelay,
                   svcVars, mergeObs, errorsSinceOpen, errorsSinceReset>>

\* After the unmount React renders the component no more, and the state the
\* handlers' updates ask for is never committed: an open of a handle that is
\* still live changes the handle only.
StaleOpen(h) ==
    /\ component = "useSSEStream"
    /\ unmounted
    /\ handles[h] = "CONNECTING"
    /\ handles' = [handles EXCEPT ![h] = "OPEN"]
    /\ lastCall' = "staleOpen"
    /\ UNCHANGED <<config, viewVars, hookVars, timers, lastDelay, svcVars, mergeObs,
                   errorsSinceOpen, errorsSinceReset>>

\* An error of a handle that is still live after the unmount. No update is
\* waiting on the component, so React can run the updater inside setState:
\* the updater then sets a timer and writes the timer ref, from the state of
\* the last render, and the state it returns is dropped.
StaleError(h, fatal) ==
    /\ component = "useSSEStream"
    /\ unmounted
    /\ handles[h] # "CLOSED"
    /\ handles' = [handles EXCEPT ![h] = IF fatal THEN "CLOSED" ELSE "CONNECTING"]
    /\ \/ UNCHANGED <<timers, reconnectTimeoutRef, lastDelay>>
       \/ LET w == errorUpdater(HookWorld) IN
              /\ ~w.stuck
              /\ timers' = w.timers
              /\ reconnectTimeoutRef' = w.reconnectTimeoutRef
              /\ lastDelay' = w.lastDelay
    /\ lastCall' = "staleError"
    /\ UNCHANGED <<config, viewVars, mounted, data, isConnected, error, reconnectCount,
                   eventSourceRef, updates, eagerState, svcVars, mergeObs,
                   errorsSinceOpen, errorsSinceReset>>

\* A reconnect timer that is still pending after the unmount: connect()
StaleTimerFire(t) ==
    /\ component = "useSSEStream"
    /\ unmounted
    /\ t \in timers
    /\ CanConnect(handles)
    /\ timers' = timers \ {t}
    /\ handles' = connect(handles).handles
    /\ eventSourceRef' = connect(handles).ref
    /\ lastCall' = "staleTimer"
    /\ UNCHANGED <<config, viewVars, mounted, data, isConnected, error, reconnectCount,
                   reconnectTimeoutRef, updates, eagerState, lastDelay, svcVars, mergeObs,
                   errorsSinceOpen, errorsSinceReset>>

\* -------------------------------------------------------------- SSEService
\* handleReconnection(), on the pending timers ts
handleReconnection(attempts, interval, ts) ==
    IF attempts < maxReconnectAttempts
    THEN [attempts |-> attempts + 1,
          timers   |-> ts \cup {FreeTimer(ts)}, delay |-> interval,
          interval |-> Min(interval * 2, MaxInterval)]
    ELSE [attempts |-> attempts, timers |-> ts, delay |-> lastDelay,
          interval |-> interval]

CanReconnect(ts) == reconnectAttempts < maxReconnectAttempts => HasFreeTimer(ts)

\* SSEService.connect(), on the handles hs and the timers ts
svcConnect(hs, ts) ==
    IF urlOk
    THEN [handles |-> [hs EXCEPT ![FreeHandle(hs)] = "CONNECTING"],
          eventSource |-> FreeHandle(hs),
          attempts |-> reconnectAttempts, timers |-> ts, delay |-> lastDelay,
          interval |-> reconnectInterval]
    ELSE LET r == handleReconnection(reconnectAttempts, reconnectInterval, ts) IN
         [handles |-> hs, eventSource |-> 0,
          attempts |-> r.attempts, timers |-> r.timers, delay |-> r.delay,
          interval |-> r.interval]

\* The owner calls connect()
SvcConnect ==
    /\ component = "SSEService"
    /\ CanConnect(handles)
    /\ ~urlOk => CanReconnect(timers)
    /\ LET c == svcConnect(handles, timers) IN
        /\ handles' = c.handles
        /\ eventSource' = IF urlOk THEN c.eventSource ELSE eventSource
        /\ reconnectAttempts' = c.attempts
        /\ reconnectInterval' = c.interval
        /\ timers' = c.timers
        /\ lastDelay' = c.delay
    /\ lastCall' = "connect"
    /\ UNCHANGED <<config, viewVars, hookVars, mergeObs, errorsSinceOpen,
                   errorsSinceReset>>

\* this.eventSource.onopen
SvcOnOpen(h) ==
    /\ component = "SSEService"
    /\ handles[h] = "CONNECTING"
    /\ handles' = [handles EXCEPT ![h] = "OPEN"]
    /\ reconnectAttempts' = 0
    /\ reconnectInterval' = BaseInterval
    /\ errorsSinceOpen' = 0
    /\ errorsSinceReset' = 0
    /\ lastCall' = "open"
    /\ UNCHANGED <<config, viewVars, hookVars, eventSource, timers, lastDelay,
                   mergeObs>>

\* this.eventSource.onerror
SvcOnError(h, fatal) ==
    /\ component = "SSEService"
    /\ handles[h] # "CLOSED"
    /\ errorsSinceOpen < MaxErrors
    /\ CanReconnect(timers)
    /\ handles' = [handles EXCEPT ![h] = IF fatal THEN "CLOSED" ELSE "CONNECTING"]
    /\ LET r == handleReconnection(reconnectAttempts, reconnectInterval, timers) IN
        /\ reconnectAttempts' = r.attempts
        /\ reconnectInterval' = r.interval
        /\ timers' = r.timers
        /\ lastDelay' = r.delay
    /\ errorsSinceOpen' = errorsSinceOpen + 1
    /\ errorsSinceReset' = errorsSinceReset + 1
    /\ lastCall' = "error"
    /\ UNCHANGED <<config, viewVars, hookVars, eventSource, mergeObs>>

\* The callback of handleReconnection's timer: disconnect(); connect()
SvcTimerFire(t) ==
    /\ component = "SSEService"
    /\ t \in timers
    /\ LET closed  == close(handles, eventSource)
           cleared == timers \ {t}
       IN  /\ CanConnect(closed)
           /\ LET c == svcConnect(closed, cleared) IN
               /\ handles' = c.handles
               /\ eventSource' = c.eventSource
               /\ reconnectAttempts' = c.attempts
               /\ reconnectInterval' = c.interval
               /\ timers' = c.timers
               /\ lastDelay' = c.delay
    /\ lastCall' = "timer"
    /\ UNCHANGED <<config, viewVars, hookVars, mergeObs, errorsSinceOpen,
                   errorsSinceReset>>

\* disconnect()
SvcDisconnect ==
    /\ component = "SSEService"
    /\ handles' = close(handles, eventSource)
    /\ eventSource' = 0
    /\ lastCall' = "disconnect"
    /\ UNCHANGED <<config, viewVars, hookVars, reconnectAttempts, reconnectInterval,
                   timers,
                   lastDelay, mergeObs, errorsSinceOpen, errorsSinceReset>>

\* Mutant: a parse failure is handled as a transport error.
SvcOnMessageReconnects(h, payload) ==
    /\ component = "SSEService"
    /\ handles[h] = "OPEN"
    /\ CanReconnect(timers)
    /\ LET r == IF payload = Malformed
                THEN handleReconnection(reconnectAttempts, reconnectInterval, timers)
                ELSE [attempts |-> reconnectAttempts, timers |-> timers,
                      delay |-> lastDelay, interval |-> reconnectInterval]
       IN  /\ reconnectAttempts' = r.attempts
           /\ reconnectInterval' = r.interval
           /\ timers' = r.timers
           /\ lastDelay' = r.delay
    /\ lastPayload' = payload
    /\ lastRec' = IF payload = Malformed THEN NULL ELSE payload
    /\ lastCall' = "message"
    /\ UNCHANGED <<config, viewVars, hookVars, eventSource, handles, prevData,
                   lastBatch, lastMerged, errorsSinceOpen, errorsSinceReset>>

\* this.eventSource.onmessage: a value that parses goes to the owner's
\* onMessage callback, a parse failure is logged.
SvcOnMessage(h, payload) ==
    /\ component = "SSEService"
    /\ handles[h] = "OPEN"
    /\ lastPayload' = payload
    /\ lastRec' = IF payload = Malformed THEN NULL ELSE payload
    /\ lastCall' = "message"
    /\ UNCHANGED <<config, viewVars, hookVars, svcVars, handles, timers, lastDelay,
                   prevData, lastBatch, lastMerged, errorsSinceOpen, errorsSinceReset>>

\* ---------------------------------------------------------- useHealthCheck
\* What a request gets: fetch rejects (net false), or resolves with
\* response.ok and a body that is no JSON text ("invalid"), the JSON null,
\* a JSON number, string, boolean or array, or a JSON object with or
\* without a status. status is what result.status reads from the parsed
\* body: the token of an object that has one, and undefined (written
\* "undefined", which is no token) for an object without a status and for
\* a number, a string, a boolean and an array, none of which makes the
\* property read throw.
HealthTokens == {"ok", "degraded"}
Response(net, ok, json, status) ==
    [net |-> net, ok |-> ok, json |-> json, status |-> status]
ProbeResponses ==
    {Response(FALSE, FALSE, "none", ""), Response(TRUE, FALSE, "none", ""),
     Response(TRUE, TRUE, "invalid", ""), Response(TRUE, TRUE, "null", "")}
    \cup {Response(TRUE, TRUE, "object", s) : s \in HealthTokens \cup {"undefined"}}
    \cup {Response(TRUE, TRUE, kind, "undefined") :
              kind \in {"number", "string", "boolean", "array"}}

\* apiClient.healthCheck(): the promise rejects with the TypeError of fetch,
\* with Error('Health check failed') or with the SyntaxError of
\* response.json(), or resolves with the parsed body.
healthCheck(response) ==
    IF ~response.net THEN [threw |-> TRUE, message |-> <<"Failed to fetch">>]
    ELSE IF ~response.ok THEN [threw |-> TRUE, message |-> <<"Health check failed">>]
    ELSE IF response.json = "invalid"
    THEN [threw |-> TRUE, message |-> <<"Unexpected token in JSON">>]
    ELSE [threw |-> FALSE, message |-> NULL]

\* checkHealth(), from the result of the request on; now is the value of
\* new Date(). result.status throws a TypeError when the body is null; for
\* every other parsed body the success branch runs, with error: null.
checkHealthResult(response, now) ==
    LET result == healthCheck(response) IN
    IF result.threw
    THEN [status |-> "error", isHealthy |-> FALSE, lastCheck |-> Some(now),
          error |-> result.message]
    ELSE IF response.json = "null"
    THEN [status |-> "error", isHealthy |-> FALSE, lastCheck |-> Some(now),
          error |-> <<"Cannot read properties of null">>]
    ELSE [status |-> response.status, isHealthy |-> response.status = "ok",
          lastCheck |-> Some(now), error |-> NULL]

\* checkHealth(), up to the await: one more request in flight
IssueProbe ==
    /\ probeSeq < MaxProbes
    /\ probeSeq' = probeSeq + 1
    /\ probes' = probes \cup {probeSeq + 1}

\* useEffect(() => { checkHealth(); setInterval(checkHealth, intervalMs) })
HealthMount ==
    /\ ~healthMounted
    /\ healthMounted' = TRUE
    /\ IssueProbe
    /\ lastCall' = "healthMount"
    /\ UNCHANGED <<config, lifeVars, managerVars, fetchVars, helperVars, health,
                   healthUnmounted, probeResp, shownProbe>>

\* The interval fires, or the owner calls checkHealth()
CheckHealth ==
    /\ healthMounted
    /\ ~healthUnmounted
    /\ IssueProbe
    /\ lastCall' = "checkHealth"
    /\ UNCHANGED <<config, lifeVars, managerVars, fetchVars, helperVars, health,
                   healthMounted, healthUnmounted, probeResp, shownProbe>>

\* The cleanup of useHealthCheck's effect: clearInterval(interval). The
\* requests in flight are not cancelled.
HealthUnmount ==
    /\ healthMounted
    /\ ~healthUnmounted
    /\ healthUnmounted' = TRUE
    /\ teardown' = Append(teardown, "clearInterval")
    /\ lastCall' = "healthUnmount"
    /\ UNCHANGED <<config, unmounted, fault, managerVars, fetchVars, helperVars,
                   health, healthMounted, probes, probeSeq, probeResp, shownProbe>>

\* Mutant: a failed probe marks the stream as disconnected.
ProbeDoneDisconnects(p, response) ==
    /\ p \in probes
    /\ probes' = probes \ {p}
    /\ ~healthUnmounted
    /\ health' = checkHealthResult(response, probeSeq - Cardinality(probes'))
    /\ shownProbe' = p
    /\ isConnected' = (isConnected /\ health'.isHealthy)
    /\ probeResp' = Some(response)
    /\ lastCall' = "probeDone"
    /\ UNCHANGED <<config, lifeVars, fetchVars, helperVars, healthMounted,
                   healthUnmounted, probeSeq,
                   mounted, data, error, reconnectCount, eventSourceRef,
                   reconnectTimeoutRef, updates, eagerState, svcVars,
                   handles, timers, lastDelay, mergeObs, errorsSinceOpen,
                   errorsSinceReset>>

\* The request of probe p completes and checkHealth() resumes; the clock
\* of lastCheck counts the completed probes. After the unmount React drops
\* the setHealth call.
ProbeDone(p, response) ==
    /\ p \in probes
    /\ probes' = probes \ {p}
    /\ IF healthUnmounted
       THEN /\ UNCHANGED <<health, shownProbe>>
            /\ lastCall' = "staleProbe"
       ELSE /\ health' = checkHealthResult(response, probeSeq - Cardinality(probes'))
            /\ shownProbe' = p
            /\ lastCall' = "probeDone"
    /\ probeResp' = Some(response)
    /\ UNCHANGED <<config, lifeVars, managerVars, fetchVars, helperVars,
                   healthMounted, healthUnmounted, probeSeq>>

\* ----------------------------------------------------------- usePredictions
\* The values of the risk option
RiskOptions == {NULL, Some("High")}
\* What GET /api/predictions gets: as for the health request, with an array
\* of records as the body of a good answer.
FetchBodies == {<<>>, <<PredictionRecord(1, "High", <<1, "Z">>)>>}
FetchResponse(net, ok, json, body) ==
    [net |-> net, ok |-> ok, json |-> json, body |-> body]
FetchResponses ==
    {FetchResponse(FALSE, FALSE, "none", <<>>), FetchResponse(TRUE, FALSE, "none", <<>>),
     FetchResponse(TRUE, TRUE, "invalid", <<>>)}
    \cup {FetchResponse(TRUE, TRUE, "array", b) : b \in FetchBodies}

\* apiClient.getPredictions(): the promise rejects with the TypeError of
\* fetch, with Error('Failed to fetch predictions') or with the SyntaxError
\* of response.json(), or resolves with the parsed body.
getPredictions(response) ==
    IF ~response.net THEN [threw |-> TRUE, message |-> <<"Failed to fetch">>]
    ELSE IF ~response.ok
    THEN [threw |-> TRUE, message |-> <<"Failed to fetch predictions">>]
    ELSE IF response.json = "invalid"
    THEN [threw |-> TRUE, message |-> <<"Unexpected token in JSON">>]
    ELSE [threw |-> FALSE, message |-> NULL]

\* Mutant: the catch block leaves the error field alone.
fetchResultKeepError(response) ==
    IF getPredictions(response).threw
    THEN [data |-> <<>>, error |-> predError]
    ELSE [data |-> response.body, error |-> predError]

\* fetchPredictions() after the await: setData(predictions), or in the
\* catch block setError(err.message) and setData([])
fetchResult(response) ==
    IF getPredictions(response).threw
    THEN [data |-> <<>>, error |-> getPredictions(response).message]
    ELSE [data |-> response.body, error |-> predError]

\* fetchPredictions() up to the await: setLoading(true), setError(null) and
\* one more request in flight
IssueFetch ==
    /\ fetchSeq < MaxFetches
    /\ fetchSeq' = fetchSeq + 1
    /\ fetches' = fetches \cup {fetchSeq + 1}
    /\ loading' = TRUE
    /\ predError' = NULL

\* useEffect(() => { fetchPredictions() }, [options...]), at the mount
PredMount ==
    /\ ~predMounted
    /\ predMounted' = TRUE
    /\ IssueFetch
    /\ lastCall' = "predMount"
    /\ UNCHANGED <<config, lifeVars, managerVars, healthVars, helperVars, options,
                   predData, fetchResp, shownFetch>>

\* The same effect, when the options of the query changed
OptionsChange(risk) ==
    /\ predMounted
    /\ risk # options
    /\ options' = risk
    /\ IssueFetch
    /\ lastCall' = "optionsChange"
    /\ UNCHANGED <<config, lifeVars, managerVars, healthVars, helperVars, predMounted,
                   predData, fetchResp, shownFetch>>

\* The caller invokes refetch()
Refetch ==
    /\ predMounted
    /\ IssueFetch
    /\ lastCall' = "refetch"
    /\ UNCHANGED <<config, lifeVars, managerVars, healthVars, helperVars, options,
                   predMounted, predData, fetchResp, shownFetch>>

\* The request f completes and fetchPredictions() resumes; the finally
\* block sets loading to false.
FetchDone(f, response) ==
    /\ f \in fetches
    /\ fetches' = fetches \ {f}
    /\ predData' = fetchResult(response).data
    /\ predError' = fetchResult(response).error
    /\ loading' = FALSE
    /\ fetchResp' = Some(response)
    /\ shownFetch' = f
    /\ lastCall' = "fetchDone"
    /\ UNCHANGED <<config, lifeVars, managerVars, healthVars, helperVars, options,
                   predMounted, fetchSeq>>

\* -------------------------------------------------------------- riskHelpers
RiskLevels == {"Low", "Medium", "High"}

\* The sequences over S of length n at most
Lists(S, n) == UNION {[1..k -> S] : k \in 0..n}

getRiskPriority(risk) ==
    CASE risk = "High" -> 3
      [] risk = "Medium" -> 2
      [] risk = "Low" -> 1
      [] OTHER -> 0

\* Mutant: the risk is not compared, the timestamps alone decide.
compareByTime(a, b) == getTime(b.timestamp) - getTime(a.timestamp)

\* The comparator of sortByRiskPriority
compareByRisk(a, b) ==
    LET aPriority == getRiskPriority(a.final.label)
        bPriority == getRiskPriority(b.final.label)
    IN  IF aPriority # bPriority
        THEN bPriority - aPriority
        ELSE getTime(b.timestamp) - getTime(a.timestamp)

\* Insert x behind every element that does not sort after it (stable).
RECURSIVE insertByRisk(_, _)
insertByRisk(list, x) ==
    IF list = <<>> THEN <<x>>
    ELSE IF compareByRisk(list[Len(list)], x) <= 0
         THEN Append(list, x)
         ELSE Append(insertByRisk(SubSeq(list, 1, Len(list) - 1), x), list[Len(list)])

\* [...predictions].sort(compareByRisk): a stable sort of a copy
RECURSIVE sortByRiskPriority(_)
sortByRiskPriority(list) ==
    IF list = <<>> THEN <<>>
    ELSE insertByRisk(sortByRiskPriority(SubSeq(list, 1, Len(list) - 1)),
                      list[Len(list)])

\* The ties k + 1/2 that (count / total) * 100 falls short of in double
\* precision, by their k: for count / total = (2k + 1) / 200 the division
\* and the multiplication round to a double below k + 1/2 (23 of 40 gives
\* 57.49999999999999, 29 of 200 gives 14.499999999999998). Every other tie
\* is computed exactly, and a quotient that is no tie is further from one
\* than the error of the doubles.
ShortTies == {14, 28, 56, 57}

\* Mutant: the fraction is cut off.
mathTrunc(count, total) == (count * 100) \div total

\* Math.round((count / total) * 100) for 0 <= count <= total and total > 0,
\* in doubles: the integer next to the percentage, at a tie the upper one,
\* unless the double falls short of the tie.
mathRound(count, total) ==
    LET twice == 200 * count
        tie   == twice % total = 0 /\ (twice \div total) % 2 = 1
        below == (twice \div total - 1) \div 2
    IN  IF tie /\ below \in ShortTies
        THEN below
        ELSE (twice + total) \div (2 * total)

getRiskStats(list) ==
    LET count(label) == Len(SelectSeq(list, LAMBDA p : p.final.label = label))
        total == Len(list)
        percentage(label) ==
            IF total > 0 THEN mathRound(count(label), total) ELSE 0
    IN  [Low |-> count("Low"), Medium |-> count("Medium"), High |-> count("High"),
         total |-> total,
         percentages |-> [Low |-> percentage("Low"), Medium |-> percentage("Medium"),
                          High |-> percentage("High")]]

\* Mutant: the array given is sorted, not a copy of it.
sortGivenArray == "predictions"

\* [...predictions].sort(...): the array that is sorted is the copy
sortReceiver == "copy"

\* The call of sortByRiskPriority on the heap: the argument as the call
\* leaves it, and the array returned.
sortByRiskPriorityCall(list) ==
    LET heap0 == [predictions |-> list, copy |-> <<>>]
        heap1 == newArray(heap0, "copy", heap0.predictions)
        heap2 == sortInPlace(heap1, sortReceiver,
                             sortByRiskPriority(heap1[sortReceiver]))
    IN  [arg |-> heap2.predictions, result |-> heap2[sortReceiver]]

\* The call of getRiskStats: predictions.forEach(...) reads the entries and
\* writes the counters of a new object.
getRiskStatsCall(list) ==
    LET heap0 == [predictions |-> list]
    IN  [arg |-> heap0.predictions, result |-> getRiskStats(heap0.predictions)]

\* The call of updateDeviceData: filter and slice make the arrays filtered
\* and updated, and it is updated that is sorted and returned.
updateDeviceDataCall(currentData, newPrediction) ==
    LET deviceName == newPrediction.telemetry.DeviceName
        heap0 == [currentData |-> currentData, filtered |-> <<>>, updated |-> <<>>]
        heap1 == newArray(heap0, "filtered",
                          filterOtherDevices(heap0.currentData, deviceName))
        heap2 == newArray(heap1, "updated",
                          slice(<<newPrediction>> \o heap1.filtered, Capacity))
        heap3 == sortInPlace(heap2, "updated", sortDesc(heap2.updated))
    IN  [arg |-> heap3.currentData, result |-> heap3.updated]

\* A caller applies updateDeviceData to the collection
UpdateDeviceData(newPrediction) ==
    LET call == updateDeviceDataCall(predictions, newPrediction)
    IN  /\ updated' = Some(call.result)
        /\ predictions' = call.arg
        /\ lastCall' = "updateDeviceData"
        /\ UNCHANGED <<config, lifeVars, managerVars, healthVars, fetchVars, sorted,
                       stats, filters, filteredData>>

\* A caller applies sortByRiskPriority to the collection
SortByRiskPriority ==
    LET call == sortByRiskPriorityCall(predictions)
    IN  /\ sorted' = Some(call.result)
        /\ predictions' = call.arg
        /\ lastCall' = "sortByRiskPriority"
        /\ UNCHANGED <<config, lifeVars, managerVars, healthVars, fetchVars, updated,
                       stats, filters, filteredData>>

\* A caller applies getRiskStats to the collection
GetRiskStats ==
    LET call == getRiskStatsCall(predictions)
    IN  /\ stats' = Some(call.result)
        /\ predictions' = call.arg
        /\ lastCall' = "getRiskStats"
        /\ UNCHANGED <<config, lifeVars, managerVars, healthVars, fetchVars, updated,
                       sorted, filters, filteredData>>

\* --------------------------------------------------------- useDeviceFilters
\* A string is the sequence of its characters. The letters that have two
\* cases, in upper and in lower case:
UpperCase == <<"C", "E", "T">>
LowerCase == <<"c", "e", "t">>

\* Mutant: the strings are compared as they are.
keepCase(str) == str

\* String.prototype.toLowerCase()
toLowerCase(str) ==
    [i \in 1..Len(str) |->
        IF \E n \in 1..Len(UpperCase) : UpperCase[n] = str[i]
        THEN LowerCase[CHOOSE n \in 1..Len(UpperCase) : UpperCase[n] = str[i]]
        ELSE str[i]]

\* String.prototype.includes(search)
includes(str, search) ==
    \E k \in 0..(Len(str) - Len(search)) : SubSeq(str, k + 1, k + Len(search)) = search

\* The truthiness of a filter field: undefined and '' are falsy
IsSet(field, empty) == field # NULL /\ field[1] # empty

\* The callback of data.filter
matchesFilters(prediction, f) ==
    IF /\ IsSet(f.deviceName, <<>>)
       /\ ~includes(toLowerCase(prediction.telemetry.DeviceName),
                    toLowerCase(f.deviceName[1]))
    THEN FALSE
    ELSE IF IsSet(f.riskLevel, "") /\ prediction.final.label # f.riskLevel[1]
    THEN FALSE
    ELSE TRUE

\* filteredData: data.filter(...), recomputed when data or filters change
filterData(list, f) == SelectSeq(list, LAMBDA prediction : matchesFilters(prediction, f))

\* The device names of the collection and the values given to the filters
FilterNames == {<<"E", "C", "T">>, <<"e", "c">>, <<"C", "T", "2">>}
FilterValues ==
    [deviceName |-> {NULL, Some(<<>>), Some(<<"c">>), Some(<<"E", "C">>),
                     Some(<<"c", "t">>), Some(<<"t", "e">>)},
     riskLevel  |-> {NULL, Some("")} \cup {Some(l) : l \in RiskLevels},
     timeRange  |-> {NULL, Some("24h")}]

\* The derivation of filteredData on the heap: data.filter(...) makes the
\* array that is returned.
filterDataCall(list, f) ==
    LET heap0 == [data |-> list, filteredData |-> <<>>]
        heap1 == newArray(heap0, "filteredData", filterData(heap0.data, f))
    IN  [arg |-> heap1.data, result |-> heap1.filteredData]

\* updateFilter(key, value)
UpdateFilter(key, value) ==
    LET call == filterDataCall(predictions, [filters EXCEPT ![key] = value])
    IN  /\ filters' = [filters EXCEPT ![key] = value]
        /\ filteredData' = call.result
        /\ predictions' = call.arg
        /\ lastCall' = "updateFilter"
        /\ UNCHANGED <<config, lifeVars, managerVars, healthVars, fetchVars, updated,
                       sorted, stats>>

\* The filter objects given to setFilters
FilterObjects ==
    {NoFilters,
     [deviceName |-> NULL, riskLevel |-> Some("High"), timeRange |-> NULL],
     [deviceName |-> Some(<<"c">>), riskLevel |-> NULL, timeRange |-> Some("24h")],
     [deviceName |-> Some(<<"E", "C">>), riskLevel |-> Some("Low"), timeRange |-> NULL]}

\* setFilters(newFilters), the setter of useState that the hook returns: the
\* object given replaces the filters as a whole.
SetFilters(newFilters) ==
    LET call == filterDataCall(predictions, newFilters)
    IN  /\ filters' = newFilters
        /\ filteredData' = call.result
        /\ predictions' = call.arg
        /\ lastCall' = "setFilters"
        /\ UNCHANGED <<config, lifeVars, managerVars, healthVars, fetchVars, updated,
                       sorted, stats>>

\* clearFilters()
ClearFilters ==
    LET call == filterDataCall(predictions, NoFilters)
    IN  /\ filters' = NoFilters
        /\ filteredData' = call.result
        /\ predictions' = call.arg
        /\ lastCall' = "clearFilters"
        /\ UNCHANGED <<config, lifeVars, managerVars, healthVars, fetchVars, updated,
                       sorted, stats>>

\* ---------------------------------------------------------- specifications
\* The merges of the stream: the hook mounted on a good url, its handle
\* open, and well-formed messages arriving.
\* The merges of the stream, one record after the other: React renders the
\* hook before the next message is delivered.
InitMerge ==
    /\ Init
    /\ component = "useSSEStream"
    /\ urlOk
    /\ maxReconnects = MaxLimit

NextMerge ==
    \/ Mount
    \/ Render
    \/ \E h \in HandleIds : OnOpen(h)
    \/ /\ updates = <<>>
       /\ \E h \in HandleIds, payload \in RecordPayloads : OnMessage(h, payload)

SpecMerge == InitMerge /\ [][NextMerge]_vars

\* The merges of the records of one spelling of the timestamp: the order of
\* two merges does not look at the spelling. A render merges one record or
\* two.
CommutePayloads == {Some(r) : r \in {q \in StreamRecords : q.timestamp[2] = "Z"}}

NextCommute ==
    \/ Mount
    \/ Render
    \/ \E h \in HandleIds : OnOpen(h)
    \/ /\ Len(updates) <= 1
       /\ \E h \in HandleIds, payload \in CommutePayloads : OnMessage(h, payload)

SpecCommute == InitMerge /\ [][NextCommute]_vars

\* The connection managers: transport events, timers and the calls of the
\* owner, for the hook and for the service.
NextConn ==
    \/ Mount
    \/ Render
    \/ \E h \in HandleIds : OnOpen(h)
    \/ \E h \in HandleIds, fatal \in BOOLEAN : OnError(h, fatal)
    \/ \E t \in TimerIds : TimerFire(t)
    \/ Reconnect
    \/ SvcConnect
    \/ \E h \in HandleIds : SvcOnOpen(h)
    \/ \E h \in HandleIds, fatal \in BOOLEAN : SvcOnError(h, fatal)
    \/ \E t \in TimerIds : SvcTimerFire(t)
    \/ SvcDisconnect

InitConn ==
    /\ Init
    /\ maxReconnects = MinLimit

SpecConn == InitConn /\ [][NextConn]_vars

\* The retries of the two managers up to the large limit: errors, the timers
\* of the attempts, opens and the calls of the owner, where React renders
\* the hook before the next event is delivered.
InitRetry ==
    /\ Init
    /\ urlOk
    /\ maxReconnects = MaxLimit

NextRetry ==
    \/ Mount
    \/ Render
    \/ /\ updates = <<>>
       /\ \/ \E h \in HandleIds : OnOpen(h)
          \/ \E h \in HandleIds, fatal \in BOOLEAN : OnError(h, fatal)
          \/ \E t \in TimerIds : TimerFire(t)
          \/ Reconnect
    \/ SvcConnect
    \/ \E h \in HandleIds : SvcOnOpen(h)
    \/ \E h \in HandleIds, fatal \in BOOLEAN : SvcOnError(h, fatal)
    \/ \E t \in TimerIds : SvcTimerFire(t)
    \/ SvcDisconnect

SpecRetry == InitRetry /\ [][NextRetry]_vars

\* The stream: the connection managers on a good url, their transport
\* events and timers, with messages that parse and messages that do not.
\* React renders the hook before the next transport event or timer, and
\* lets the update of one message wait for the update of the next.
SamplePayloads ==
    {Malformed} \cup OtherPayloads \cup {Some(PredictionRecord(1, "Low", <<1, "Z">>))}

InitStream ==
    /\ Init
    /\ urlOk
    /\ maxReconnects = MinLimit

NextStream ==
    \/ Mount
    \/ Render
    \/ /\ updates = <<>>
       /\ \/ \E h \in HandleIds : OnOpen(h)
          \/ \E h \in HandleIds, fatal \in BOOLEAN : OnError(h, fatal)
          \/ \E t \in TimerIds : TimerFire(t)
    \/ SvcConnect
    \/ \E h \in HandleIds : SvcOnOpen(h)
    \/ \E h \in HandleIds, fatal \in BOOLEAN : SvcOnError(h, fatal)
    \/ \E t \in TimerIds : SvcTimerFire(t)
    \/ SvcDisconnect
    \/ /\ Len(updates) <= 1
       /\ \A i \in 1..Len(updates) : updates[i].kind \in {"message", "parse"}
       /\ \E h \in HandleIds, payload \in SamplePayloads \ OtherPayloads :
              OnMessage(h, payload)
    \/ \E h \in HandleIds, payload \in SamplePayloads \ OtherPayloads :
           SvcOnMessage(h, payload)

SpecStream == InitStream /\ [][NextStream]_vars

\* The life of the hook, from its mount to its unmount and after it: opens,
\* errors, timers and messages of every kind.
InitLife ==
    /\ Init
    /\ component = "useSSEStream"
    /\ urlOk
    /\ maxReconnects = MinLimit

NextLife ==
    \/ Mount
    \/ Render
    \/ \E h \in HandleIds : OnOpen(h)
    \/ \E h \in HandleIds, fatal \in BOOLEAN : OnError(h, fatal)
    \/ \E t \in TimerIds : TimerFire(t)
    \/ \E h \in HandleIds, payload \in SamplePayloads : OnMessage(h, payload)
    \/ Unmount
    \/ \E h \in HandleIds : StaleOpen(h)
    \/ \E h \in HandleIds, fatal \in BOOLEAN : StaleError(h, fatal)
    \/ \E t \in TimerIds : StaleTimerFire(t)

SpecLife == InitLife /\ [][NextLife]_vars

\* The dashboard view: the health probe next to the hook on a good url, with
\* its opens, errors and messages, each rendered before the next event of
\* the stream; the probes come at any moment.
InitView == InitLife

NextProbe ==
    \/ HealthMount
    \/ CheckHealth
    \/ \E p \in 1..MaxProbes, response \in ProbeResponses : ProbeDone(p, response)

NextView ==
    \/ NextProbe
    \/ Mount
    \/ Render
    \/ /\ updates = <<>>
       /\ \/ \E h \in HandleIds : OnOpen(h)
          \/ \E h \in HandleIds, fatal \in BOOLEAN : OnError(h, fatal)
          \/ \E h \in HandleIds, payload \in SamplePayloads : OnMessage(h, payload)

SpecView == InitView /\ [][NextView]_vars

\* The stored predictions: the mount of usePredictions, its refetches and
\* the answers of the requests, in any order.
NextFetch ==
    \/ PredMount
    \/ \E risk \in RiskOptions : OptionsChange(risk)
    \/ Refetch
    \/ \E f \in 1..MaxFetches, response \in FetchResponses : FetchDone(f, response)

SpecFetch == InitLife /\ [][NextFetch]_vars

\* The pure helpers, each applied to a collection drawn at the start.
InitBase ==
    /\ InitManagers
    /\ component = "useSSEStream"
    /\ urlOk
    /\ maxReconnects = MinLimit
    /\ InitHealth
    /\ InitFetch

SortRecords ==
    {PredictionRecord(1, l, <<t, "Z">>) : l \in RiskLevels, t \in 1..MaxTime}
InitSort == InitBase /\ InitHelpers(Lists(SortRecords, SortLen))
SpecSort == InitSort /\ [][SortByRiskPriority]_vars

StatsRecords == {PredictionRecord(1, l, <<1, "Z">>) : l \in RiskLevels}

\* n records of one label
Repeat(label, n) == [i \in 1..n |-> PredictionRecord(1, label, <<1, "Z">>)]

\* The collections of up to n records that hold the Low records first, then
\* the Medium and then the High ones: one for every count of each label.
GroupedLists(n) ==
    {Repeat("Low", c[1]) \o Repeat("Medium", c[2]) \o Repeat("High", c[3]) :
        c \in {t \in (0..n) \X (0..n) \X (0..n) : t[1] + t[2] + t[3] <= n}}

\* The collections given to getRiskStats: every count of each label up to
\* StatsLen records, and the short collections in every order.
InitStats ==
    InitBase /\ InitHelpers(GroupedLists(StatsLen) \cup Lists(StatsRecords, StatsMixLen))
SpecStats == InitStats /\ [][GetRiskStats]_vars

FilterRecords ==
    {PredictionRecord(d, l, <<1, "Z">>) : d \in FilterNames, l \in RiskLevels}
InitFilter == InitBase /\ InitHelpers(Lists(FilterRecords, FilterLen))

NextFilter ==
    \/ \E key \in DOMAIN FilterValues :
           \E value \in FilterValues[key] : UpdateFilter(key, value)
    \/ \E newFilters \in FilterObjects : SetFilters(newFilters)
    \/ ClearFilters

SpecFilter == InitFilter /\ [][NextFilter]_vars

\* The four functions that are given the collection, each applied once to a
\* collection drawn at the start, in any order of its entries.
PureNames == {<<"E", "C", "T">>, <<"e", "c">>}
PureRecords ==
    {PredictionRecord(d, l, <<t, "Z">>) :
        d \in PureNames, l \in {"Low", "High"}, t \in 1..MaxTime}
InitPure == InitBase /\ InitHelpers(Lists(PureRecords, PureLen)) /\ lastCall = "init"

NextPure ==
    /\ lastCall = "init"
    /\ \/ \E newPrediction \in PureRecords : UpdateDeviceData(newPrediction)
       \/ SortByRiskPriority
       \/ GetRiskStats
       \/ NextFilter

SpecPure == InitPure /\ [][NextPure]_vars

\* Records delivered while the connection is opened, lost and
\* re-established by reconnect(): two records of one device with different
\* instants (the one merged later stays, whatever its instant) and records
\* of two more devices, one device more than the capacity holds (the order
\* of the merges decides which entry is cut).
OrderPayloads ==
    {Some(PredictionRecord(1, "Low", <<1, "Z">>)),
     Some(PredictionRecord(1, "Low", <<2, "Z">>)),
     Some(PredictionRecord(2, "Low", <<2, "Z">>)),
     Some(PredictionRecord(3, "Low", <<1, "Z">>))}

NextOrder ==
    \/ Mount
    \/ Render
    \/ \E h \in HandleIds : OnOpen(h)
    \/ \E h \in HandleIds, fatal \in BOOLEAN : OnError(h, fatal)
    \/ Reconnect
    \/ \E h \in HandleIds, payload \in OrderPayloads : OnMessage(h, payload)

SpecOrder == InitLife /\ [][NextOrder]_vars

\* The health monitor from its mount to its unmount: the probes of the
\* interval and of checkHealth() overlap and complete in any order.
NextHealth ==
    \/ NextProbe
    \/ HealthUnmount

SpecHealth == InitLife /\ [][NextHealth]_vars

\* The deactivation of the view: the stream hook and the health hook are
\* mounted, the connection goes through its steps, and the cleanups of the
\* two effects run.
NextTeardown ==
    \/ Mount
    \/ Render
    \/ \E h \in HandleIds : OnOpen(h)
    \/ \E h \in HandleIds, fatal \in BOOLEAN : OnError(h, fatal)
    \/ \E t \in TimerIds : TimerFire(t)
    \/ HealthMount
    \/ Unmount
    \/ HealthUnmount

SpecTeardown == InitLife /\ [][NextTeardown]_vars

Next ==
    \/ NextConn
    \/ NextTeardown
    \/ \E newPrediction \in PureRecords : UpdateDeviceData(newPrediction)
    \/ NextFetch
    \/ NextFilter
    \/ SortByRiskPriority
    \/ GetRiskStats
    \/ NextStream
    \/ NextLife
    \/ NextProbe
    \/ \E h \in HandleIds, payload \in Payloads : OnMessage(h, payload)
    \/ \E h \in HandleIds, payload \in Payloads : SvcOnMessage(h, payload)

Spec == Init /\ [][Next]_vars

\* ------------------------------------------------------------ the collection
Range(s) == {s[i] : i \in 1..Len(s)}
Devices(s) == {s[i].telemetry.DeviceName : i \in 1..Len(s)}

\* The last step merged a record
Merged == lastCall = "message" /\ lastRec # NULL

\* C1 (uniqueness): after any sequence of merged stream messages no two
\* entries of the collection have the same telemetry.DeviceName.
C1_Uniqueness ==
    \A i, j \in 1..Len(data) :
        i # j => data[i].telemetry.DeviceName # data[j].telemetry.DeviceName

\* A record was merged for a device the collection already held, next to
\* another device's entry.
C1_Witness ==
    /\ Merged
    /\ lastRec[1].telemetry.DeviceName \in Devices(prevData)
    /\ lastRec[1] \notin Range(prevData)
    /\ Len(data) = Capacity

\* C2 (ordering): after any sequence of merges every entry's timestamp is
\* at or after the timestamp of the entry behind it.
C2_SortedDescending ==
    \A i \in 1..(Len(data) - 1) :
        getTime(data[i].timestamp) >= getTime(data[i + 1].timestamp)

\* A record older than the resident ones arrived last and sorted behind them.
C2_Witness ==
    /\ Merged
    /\ Len(data) = Capacity
    /\ data[Len(data)] = lastRec[1]
    /\ getTime(data[1].timestamp) > getTime(lastRec[1].timestamp)

\* C3 (capacity bound): the collection never holds more than the capacity.
C3_CapacityBound == Len(data) <= Capacity

\* A record of a new device was merged into a full collection.
C3_Witness ==
    /\ Merged
    /\ Len(prevData) = Capacity
    /\ lastRec[1].telemetry.DeviceName \notin Devices(prevData)
    /\ Len(data) = Capacity

\* C4 (eviction policy): when a record of a device not yet present is
\* merged into a collection at capacity, the record is in the result and
\* exactly one resident entry is gone, one whose timestamp is the oldest
\* among the previously resident entries.
C4_EvictsOldestResident ==
    (/\ Merged
     /\ Len(prevData) = Capacity
     /\ lastRec[1].telemetry.DeviceName \notin Devices(prevData))
    => /\ lastRec[1] \in Range(data)
       /\ \E e \in Range(prevData) :
            /\ Range(prevData) \ Range(data) = {e}
            /\ \A p \in Range(prevData) :
                 getTime(e.timestamp) <= getTime(p.timestamp)

\* The record merged into the full collection is older than every resident.
C4_Witness ==
    /\ Merged
    /\ Len(prevData) = Capacity
    /\ lastRec[1].telemetry.DeviceName \notin Devices(prevData)
    /\ \A p \in Range(prevData) :
         getTime(lastRec[1].timestamp) < getTime(p.timestamp)

\* C5 (idempotent re-merge): merging a record a second time changes
\* nothing: merge(merge(C, R), R) = merge(C, R), entry by entry, for every
\* collection C a render has committed and every record R.
C5_IdempotentRemerge ==
    updates = <<>> =>
        \A r \in StreamRecords :
            updateDeviceData(updateDeviceData(data, r), r) = updateDeviceData(data, r)

\* The record merged was already the collection's entry for its device, in
\* a full collection where it ties with another entry.
C5_Witness ==
    /\ Merged
    /\ lastRec[1] \in Range(prevData)
    /\ Len(data) = Capacity
    /\ \E p \in Range(data) :
         p # lastRec[1] /\ getTime(p.timestamp) = getTime(lastRec[1].timestamp)

\* C6 (supersession): every entry of the collection is the record merged
\* last for its device, whatever the timestamps.
C6_LatestWriteWins ==
    \A i \in 1..Len(data) :
        lastMerged[data[i].telemetry.DeviceName] = Some(data[i])

\* The record merged last replaced an entry of its device with a later
\* timestamp.
C6_Witness ==
    /\ Merged
    /\ lastRec[1] \in Range(data)
    /\ \E old \in Range(prevData) :
         /\ old.telemetry.DeviceName = lastRec[1].telemetry.DeviceName
         /\ getTime(old.timestamp) > getTime(lastRec[1].timestamp)
         /\ old \notin Range(data)

\* ------------------------------------------------------ the connection
\* The attempt limit and the attempt counter of the manager in use
AttemptLimit ==
    IF component = "useSSEStream" THEN maxReconnects ELSE maxReconnectAttempts
AttemptCounter ==
    IF component = "useSSEStream" THEN reconnectCount ELSE reconnectAttempts

\* The schedule of the specification: min(1000 * 2^(n-1), 16000)
ScheduleDelay(n) == Min(1000 * 2^(n - 1), 16000)
ScheduleTable == <<1000, 2000, 4000, 8000, 16000, 16000>>

\* The error handler that just ran took the counter to n and left a
\* reconnect pending after the scheduled delay.
BackoffStep(n) ==
    /\ AttemptCounter = n
    /\ timers # {}
    /\ component = "useSSEStream" => reconnectTimeoutRef \in timers
    /\ lastDelay = ScheduleDelay(n)
    /\ n <= Len(ScheduleTable) => lastDelay = ScheduleTable[n]

\* C7 as claimed (backoff schedule): the n-th transport error since the last
\* successful open, n within the attempt limit, takes the attempt counter
\* to n and schedules the reconnect after min(1000 * 2^(n-1), 16000) ms.
C7_BackoffSinceOpen ==
    (lastCall = "error" /\ errorsSinceOpen <= AttemptLimit)
    => BackoffStep(errorsSinceOpen)

\* C7 as amended: the n-th transport error since the last successful open
\* or explicit reconnect(), n within the attempt limit, takes the attempt
\* counter to n and schedules the reconnect after min(1000 * 2^(n-1), 16000)
\* ms, in useSSEStream and in SSEService.
C7_BackoffSinceReset ==
    (lastCall = "error" /\ errorsSinceReset <= AttemptLimit)
    => BackoffStep(errorsSinceReset)

\* The hook schedules its sixth attempt, after an explicit reconnect() had
\* restarted the count.
C7_Witness ==
    /\ component = "useSSEStream"
    /\ lastCall = "error"
    /\ errorsSinceReset = 6
    /\ errorsSinceOpen > errorsSinceReset
    /\ lastDelay = 16000

\* ConnectionState Failed, as the hook exposes it
Failed == ~isConnected /\ error = ErrMaxRetry

\* C8 (terminal state): once more than maxReconnects transport errors have
\* come in a row, the hook is Failed and has no reconnect pending; no step
\* other than an explicit reconnect() leaves Failed, schedules a reconnect
\* or creates a handle; and the first error after that reconnect() is
\* attempt 1.
C8_TerminalState ==
    [][ /\ (component = "useSSEStream" /\ errorsSinceReset > maxReconnects)
           => /\ Failed
              /\ timers = {}
              /\ lastCall' # "reconnect"
                 => /\ Failed'
                    /\ timers' = {}
                    /\ Live(handles') \subseteq Live(handles)
        /\ (component = "useSSEStream" /\ lastCall' = "error" /\ errorsSinceReset' = 1)
           => reconnectCount' = 1
      ]_vars

\* C9 (single live transport): at most one EventSource created by the hook
\* is live in any reachable state.
C9_SingleLiveHandle ==
    component = "useSSEStream" => Cardinality(Live(handles)) <= 1

\* C10 (explicit reconnect): right after reconnect() returns (on a url the
\* constructor accepts) exactly one handle is live and no retry timer is
\* pending, and the attempt counter is zero once the update reconnect()
\* queued is applied.
C10_ReconnectLeavesOneHandle ==
    (component = "useSSEStream" /\ urlOk)
    => /\ lastCall = "reconnect"
          => /\ Cardinality(Live(handles)) = 1
             /\ timers = {}
       /\ lastCall = "reset" => reconnectCount = 0

\* ------------------------------------------------------ the open handler
\* C11: right after a transport handle reported a successful open, the
\* manager is Connected with its retry state reset: the hook has isConnected
\* true, error null and reconnectCount 0, so that the next delay is the base
\* 1000 ms; the service has reconnectAttempts 0 and reconnectInterval 1000.
C11_OpenResetsRetryState ==
    lastCall = "open" =>
        IF component = "useSSEStream"
        THEN /\ isConnected
             /\ error = NoError
             /\ reconnectCount = 0
             /\ backoffDelay(reconnectCount + 1) = BaseInterval
        ELSE /\ reconnectAttempts = 0
             /\ reconnectInterval = BaseInterval

\* An open that follows a backoff beyond the base delay.
C11_Witness == lastCall = "open" /\ lastDelay > BaseInterval

\* ------------------------------------------------------ stream messages
\* The queue without the updates of the messages that did not parse
WithoutParse(queue) == SelectSeq(queue, LAMBDA u : u.kind # "parse")

\* What the next render starts from, and the updates whose updaters it has
\* yet to run: an updater that ran inside setState has set its timer, and
\* the render takes the state it returned.
RenderStart ==
    IF eagerState = NULL THEN HookWorld
    ELSE [eagerState[1] EXCEPT !.timers = timers,
                               !.reconnectTimeoutRef = reconnectTimeoutRef,
                               !.lastDelay = lastDelay]
RenderQueue == IF eagerState = NULL THEN updates ELSE Tail(updates)

\* C12: a stream message whose payload cannot be parsed leaves isConnected,
\* reconnectCount and the collection as they were, closes no handle and
\* schedules no reconnect timer; in the hook the error field is the only
\* thing set (SSEService keeps no error field and changes nothing). In the
\* hook the handler only queues its update, and a render gives the
\* connection state, the collection, the handles and the timers that it
\* gives without the updates of the malformed messages, with the parse
\* error in the error field when the malformed message came last.
C12_MalformedIsLocal ==
    [][ /\ (lastCall' \in {"message", "onmessage"} /\ lastPayload' = Malformed) =>
              /\ UNCHANGED <<isConnected, reconnectCount, data, error, handles, timers,
                             lastDelay>>
              /\ UNCHANGED <<mounted, eventSourceRef, reconnectTimeoutRef, eagerState,
                             svcVars, lifeVars>>
              /\ component = "useSSEStream" => updates' = Append(updates, Upd("parse"))
        /\ (component = "useSSEStream" /\ updates # <<>> /\ updates' = <<>>) =>
              LET w == applyAll(RenderStart, WithoutParse(RenderQueue)) IN
              /\ isConnected' = w.isConnected
              /\ reconnectCount' = w.reconnectCount
              /\ data' = w.data
              /\ timers' = w.timers
              /\ reconnectTimeoutRef' = w.reconnectTimeoutRef
              /\ lastDelay' = w.lastDelay
              /\ UNCHANGED <<handles, eventSourceRef, mounted, lifeVars>>
              /\ error' \in {w.error, ErrParse}
              /\ updates[Len(updates)].kind = "parse" => error' = ErrParse
      ]_vars

\* The update of a malformed message was applied in a connected hook that
\* holds a record, in one render with the update of a record.
C12_Witness ==
    /\ lastCall = "parse"
    /\ lastPayload = Malformed
    /\ lastRec # NULL
    /\ component = "useSSEStream"
    /\ isConnected
    /\ Len(data) > 0
    /\ error = ErrParse

\* ------------------------------------------------------ the health probe
\* The request of the probe succeeded and the returned status is 'ok'.
ProbeOk(response) ==
    /\ response.net
    /\ response.ok
    /\ response.json = "object"
    /\ response.status = "ok"

Healthy == health.isHealthy /\ health.error = NULL
UnhealthyWithReason == ~health.isHealthy /\ health.error # NULL

\* C15 (probe outcome): after a completed probe the status is Healthy
\* (isHealthy true, error null) exactly when the request succeeded with
\* status 'ok', and Unhealthy with a reason (isHealthy false and a non-null
\* error) in every other case.
C15_ProbeOutcome ==
    lastCall = "probeDone" =>
        IF ProbeOk(probeResp[1]) THEN Healthy ELSE UnhealthyWithReason

\* C16: issuing a probe and receiving its result, success or failure, leave
\* the stream's isConnected, reconnectCount and error, its transport handles
\* and pending timers, and the device collection unchanged.
C16_ProbeIsOrthogonal ==
    [][lastCall' \in {"healthMount", "checkHealth", "probeDone"} =>
          /\ UNCHANGED <<isConnected, reconnectCount, error, data, updates, eagerState>>
          /\ UNCHANGED <<handles, eventSourceRef, timers, reconnectTimeoutRef>>]_vars

\* A probe failed while the stream was connected and held a record, and one
\* while the stream waited for its reconnect timer.
C16_Witness ==
    /\ lastCall = "probeDone"
    /\ health.status = "error"
    /\ health.lastCheck = Some(2)
    /\ timers # {}
    /\ reconnectCount > 0
    /\ Len(data) > 0

\* ------------------------------------------------------ faults and teardown
\* C13: whatever the payload of a stream message is, the hook's handling of
\* it ends in explicit state, the error field set for text that does not
\* parse and the collection updated for a value that does, and no exception
\* leaves the hook uncaught.
C13_NoUncaughtFault ==
    /\ ~fault
    /\ (component = "useSSEStream" /\ lastCall = "parse") => error = ErrParse
    /\ (component = "useSSEStream" /\ lastCall = "message") => lastRec # NULL

\* C14: once the cleanup of the hook's effect has run, no handle the hook
\* created is live and no reconnect timer is pending, so that connect() is
\* not called again.
C14_ReleasedOnTeardown ==
    unmounted => Live(handles) = {} /\ timers = {}

\* ------------------------------------------------------ stored predictions
\* The request failed: fetch rejected, the response is not ok, or its body
\* is no JSON text.
FetchFailed(response) ==
    \/ ~response.net
    \/ ~response.ok
    \/ response.json # "array"

\* C17: when a fetch of usePredictions fails, the error field becomes
\* non-null, loading returns to false and the data is left empty or
\* unchanged; the failure issues no fetch: a fetch is issued only by the
\* mount, by refetch() and by a change of the options.
C17_FetchFailure ==
    [][/\ (lastCall' = "fetchDone" /\ FetchFailed(fetchResp'[1])) =>
              /\ predError' # NULL
              /\ ~loading'
              /\ predData' = <<>> \/ predData' = predData
              /\ fetchSeq' = fetchSeq
              /\ fetches' \subseteq fetches
       /\ fetchSeq' # fetchSeq =>
              lastCall' \in {"predMount", "refetch", "optionsChange"}]_vars

\* The second fetch failed with a response that is not ok.
C17_Witness ==
    /\ lastCall = "fetchDone"
    /\ fetchSeq = 2
    /\ fetches = {}
    /\ ~fetchResp[1].ok
    /\ predError = <<"Failed to fetch predictions">>
    /\ ~loading
    /\ predData = <<>>

\* ------------------------------------------------------------ riskHelpers
Occurrences(list, x) == Cardinality({i \in 1..Len(list) : list[i] = x})
IsPermutation(a, b) ==
    /\ Len(a) = Len(b)
    /\ \A x \in Range(a) \cup Range(b) : Occurrences(a, x) = Occurrences(b, x)

\* C18: sortByRiskPriority returns a permutation of its input in which every
\* High record precedes every Medium record and every Medium record every
\* Low one, and the records of one risk label are in descending order of
\* their timestamps.
C18_RiskPrioritySort ==
    sorted # NULL =>
        LET out == sorted[1] IN
        /\ IsPermutation(out, predictions)
        /\ \A i, j \in 1..Len(out) :
              i < j =>
                /\ out[i].final.label = "Medium" => out[j].final.label # "High"
                /\ out[i].final.label = "Low" => out[j].final.label = "Low"
                /\ out[i].final.label = out[j].final.label =>
                       getTime(out[i].timestamp) >= getTime(out[j].timestamp)

\* A Low record ahead of two High records, the older of them first.
C18_Witness ==
    /\ sorted # NULL
    /\ Len(predictions) = 3
    /\ predictions[1].final.label = "Low"
    /\ predictions[2].final.label = "High"
    /\ predictions[3].final.label = "High"
    /\ getTime(predictions[2].timestamp) < getTime(predictions[3].timestamp)
    /\ sorted[1] = <<predictions[3], predictions[2], predictions[1]>>

\* C19: getRiskStats reports for each risk label the number of records with
\* that label and, as its percentage, the integer nearest to count * 100 /
\* total, 0 for every label of an empty collection; 3 Low, 1 Medium and 0
\* High give 75, 25 and 0.
C19_RiskStats ==
    stats # NULL =>
        LET out == stats[1]
            total == Len(predictions)
            count(label) ==
                Cardinality({i \in 1..total : predictions[i].final.label = label})
            Nearest(p, label) ==
                IF total = 0 THEN p = 0
                ELSE /\ 2 * (p * total - count(label) * 100) <= total
                     /\ 2 * (count(label) * 100 - p * total) <= total
        IN  /\ out.total = total
            /\ out.Low = count("Low")
            /\ out.Medium = count("Medium")
            /\ out.High = count("High")
            /\ Nearest(out.percentages.Low, "Low")
            /\ Nearest(out.percentages.Medium, "Medium")
            /\ Nearest(out.percentages.High, "High")
            /\ (count("Low") = 3 /\ count("Medium") = 1 /\ count("High") = 0) =>
                   out.percentages = [Low |-> 75, Medium |-> 25, High |-> 0]

\* The statistics of 23 Low and 17 Medium: 57.5 and 42.5 are ties, the
\* first comes out as 57 and the second as 43.
C19_Witness ==
    /\ stats # NULL
    /\ Len(predictions) = 40
    /\ stats[1].Low = 23
    /\ stats[1].Medium = 17
    /\ stats[1].percentages = [Low |-> 57, Medium |-> 43, High |-> 0]

\* --------------------------------------------------------- useDeviceFilters
\* Two characters are the same letter, whatever their case.
SameLetter(a, b) ==
    \/ a = b
    \/ \E n \in 1..Len(UpperCase) : {a, b} = {UpperCase[n], LowerCase[n]}

ContainsIgnoringCase(name, part) ==
    \E k \in 0..(Len(name) - Len(part)) :
        \A i \in 1..Len(part) : SameLetter(name[k + i], part[i])

\* C20: filteredData is the subsequence, in the order of the input, of the
\* records that satisfy every filter field that is set: the device name
\* contains the deviceName filter ignoring case, and the risk label equals
\* the riskLevel filter; a field that is unset or empty matches every
\* record, so that filteredData is the input when no filter is set.
C20_Filters ==
    LET NameSet == filters.deviceName \notin {NULL, Some(<<>>)}
        RiskSet == filters.riskLevel \notin {NULL, Some("")}
        Satisfies(p) ==
            /\ NameSet => ContainsIgnoringCase(p.telemetry.DeviceName,
                                               filters.deviceName[1])
            /\ RiskSet => p.final.label = filters.riskLevel[1]
    IN  /\ filteredData = SelectSeq(predictions, Satisfies)
        /\ (~NameSet /\ ~RiskSet) => filteredData = predictions

\* The filters "EC" and High keep the second of two records, whose device
\* is "ec".
C20_Witness ==
    /\ filters.deviceName = Some(<<"E", "C">>)
    /\ filters.riskLevel = Some("High")
    /\ Len(predictions) = 2
    /\ predictions[1].final.label = "Low"
    /\ filteredData = <<predictions[2]>>
    /\ filteredData[1].telemetry.DeviceName = <<"e", "c">>

\* The last step called one of the functions that are given the collection
PureCalls == {"updateDeviceData", "sortByRiskPriority", "getRiskStats",
              "updateFilter", "setFilters", "clearFilters"}

\* C21 (purity): updateDeviceData, sortByRiskPriority, getRiskStats and the
\* derivation of filteredData leave the collection they are given as it
\* was: the same entries in the same order after the call as before it.
C21_Purity ==
    [][lastCall' \in PureCalls => predictions' = predictions]_vars

\* An unsorted collection was sorted by risk: the result differs from the
\* argument, and the argument is still as it was drawn.
C21_Witness ==
    /\ lastCall = "sortByRiskPriority"
    /\ Len(predictions) = 2
    /\ sorted # NULL
    /\ sorted[1] # predictions
    /\ sorted[1] = <<predictions[2], predictions[1]>>

\* The steps of the merge as they are specified: remove the entries of the
\* record's device, insert the record, stable-sort by timestamp descending,
\* then truncate to the capacity.
SpecifiedMerge(collection, record) ==
    LET others == SelectSeq(collection, LAMBDA p :
                      p.telemetry.DeviceName # record.telemetry.DeviceName)
        ordered == sortDesc(<<record>> \o others)
    IN  SubSeq(ordered, 1, Min(Len(ordered), Capacity))

\* The steps in the order of the code: the cut comes before the sort, so it
\* drops the last resident entries and never the incoming record.
SpecifiedMergeBeforeSort(collection, record) ==
    LET others == SelectSeq(collection, LAMBDA p :
                      p.telemetry.DeviceName # record.telemetry.DeviceName)
        inserted == <<record>> \o others
    IN  sortDesc(SubSeq(inserted, 1, Min(Len(inserted), Capacity)))

\* C22 (merge algorithm): for every collection within capacity and every
\* incoming record, the collection after the merge is the result of the
\* specified steps, also when the collection is full and the record is
\* older than every resident entry.
C22_MergeAsSpecified ==
    Merged => data = SpecifiedMerge(prevData, lastRec[1])

\* The place of a teardown call in the specified order: the reconnect timer
\* first, the health-probe interval second, the transport handle last.
TeardownRank(call) ==
    IF call = "clearTimeout" THEN 1 ELSE IF call = "clearInterval" THEN 2 ELSE 3

\* C23 (teardown order): on deactivation the teardown cancels the pending
\* reconnect timer first, then stops the health-probe interval, and only
\* then closes the live transport handle.
C23_TeardownOrder ==
    \A i, j \in 1..Len(teardown) :
        i < j => TeardownRank(teardown[i]) <= TeardownRank(teardown[j])

\* The left fold of the merge over the records of the queued updates
RECURSIVE FoldMerges(_, _)
FoldMerges(collection, queue) ==
    IF queue = <<>> THEN collection
    ELSE FoldMerges(IF Head(queue).kind = "message"
                    THEN SpecifiedMergeBeforeSort(collection, Head(queue).value)
                    ELSE collection,
                    Tail(queue))

\* C24 (merges apply in delivery order): the collection is the left fold of
\* the merge over the delivered well-formed messages, from the empty
\* collection: it starts empty, the handler of a message puts its record
\* behind the updates that are waiting, no handler drops or reorders them,
\* a render merges the waiting records in that order into the collection
\* as the render before left it, and nothing else (the updates of open,
\* error and reconnect(), the timers) changes the collection.
C24_MergesInDeliveryOrder ==
    [][ /\ IF updates # <<>> /\ updates' = <<>>
           THEN data' = FoldMerges(data, updates)
           ELSE /\ data' = data
                /\ Len(updates') >= Len(updates)
                /\ SubSeq(updates', 1, Len(updates)) = updates
        /\ lastCall' = "onmessage"
              => updates' = Append(updates, UpdMessage(lastPayload'[1]))
      ]_vars

\* One render merged two records of one device, the newer instant first
\* and the older one behind it, in a hook that had lost its connection,
\* scheduled a retry and is connected again: the entry
\* of the device is the record delivered last, where the merges in the
\* other order leave the other record.
C24_Witness ==
    /\ lastCall = "message"
    /\ lastBatch = 2
    /\ lastRec # NULL
    /\ Len(prevData) = 1
    /\ prevData[1].telemetry.DeviceName = lastRec[1].telemetry.DeviceName
    /\ getTime(prevData[1].timestamp) > getTime(lastRec[1].timestamp)
    /\ data = <<lastRec[1]>>
    /\ SpecifiedMergeBeforeSort(data, prevData[1]) # data
    /\ lastDelay > 0
    /\ isConnected

\* C25 (SSEService teardown): after disconnect() no transport handle is live
\* and none is created again unless connect() is called: from a state where
\* the service holds no handle and none is live, as disconnect() leaves it,
\* no step other than an explicit connect() makes a handle live, also when a
\* transport error had scheduled a reconnect before.
C25_DisconnectIsFinal ==
    [][(/\ component = "SSEService"
        /\ eventSource = 0
        /\ Live(handles) = {}
        /\ lastCall' # "connect")
       => Live(handles') = {}]_vars

\* C26 (merge commutes across devices): for a collection produced by merges
\* and two records of different devices with different timestamps, merging
\* the first and then the second gives the collection that merging the
\* second and then the first gives, also when the collection is at capacity.
C26_MergeCommutes ==
    \A r1, r2 \in StreamRecords :
        (/\ r1.telemetry.DeviceName # r2.telemetry.DeviceName
         /\ getTime(r1.timestamp) # getTime(r2.timestamp))
        => updateDeviceData(updateDeviceData(data, r1), r2)
               = updateDeviceData(updateDeviceData(data, r2), r1)

\* Two records of different devices with different instants
Commutable(r1, r2) ==
    /\ r1.telemetry.DeviceName # r2.telemetry.DeviceName
    /\ getTime(r1.timestamp) # getTime(r2.timestamp)

\* The collection has room for the devices of the two records
RoomFor(collection, r1, r2) ==
    Cardinality(Devices(collection)
                \cup {r1.telemetry.DeviceName, r2.telemetry.DeviceName}) <= Capacity

\* C26 as amended: the two merges commute when the collection has room for
\* the devices of both records, that is when no entry is evicted; this
\* includes a full collection in which both devices are resident. Stated
\* of two records that one render merges: the collection after the render
\* is the one the merges give in the other order.
C26_MergeCommutesWithRoom ==
    [][(/\ Len(updates) = 2
        /\ updates' = <<>>
        /\ updates[1].kind = "message"
        /\ updates[2].kind = "message"
        /\ Commutable(updates[1].value, updates[2].value)
        /\ RoomFor(data, updates[1].value, updates[2].value))
       => data' = updateDeviceData(updateDeviceData(data, updates[2].value),
                                   updates[1].value)]_vars

\* A full collection and two records of resident devices that wait for the
\* render and change the collection one after the other.
C26_Witness ==
    /\ Len(data) = Capacity
    /\ Len(updates) = 2
    /\ updates[1].kind = "message"
    /\ updates[2].kind = "message"
    /\ LET r1 == updates[1].value
           r2 == updates[2].value
       IN  /\ Commutable(r1, r2)
           /\ RoomFor(data, r1, r2)
           /\ updateDeviceData(data, r1) # data
           /\ updateDeviceData(updateDeviceData(data, r1), r2)
                  # updateDeviceData(data, r1)
           /\ updateDeviceData(data, r2) # data

\* C27 (attempt counter is bounded): in every reachable state of
\* useSSEStream reconnectCount is at most maxReconnects + 1, whatever error
\* events the transport handles deliver.
C27_AttemptCounterBounded ==
    component = "useSSEStream" => reconnectCount <= maxReconnects + 1

\* C28 (connected flag matches the transport): in every reachable state of
\* useSSEStream in which no state update is waiting for a render,
\* isConnected is true only if the handle held in eventSourceRef is open,
\* also after reconnect() and when events of an earlier handle arrive.
C28_ConnectedMeansOpen ==
    (component = "useSSEStream" /\ updates = <<>> /\ isConnected)
    => (eventSourceRef # 0 /\ handles[eventSourceRef] = "OPEN")

\* C29 (health status is not stale): when probes overlap, once all of them
\* have completed the reported status is the result of the probe issued
\* last (all of them having completed before the teardown), and no status
\* update happens after the teardown.
C29_HealthNotStale ==
    [][/\ healthUnmounted => health' = health
       /\ (probes' = {} /\ probeSeq' > 0 /\ ~healthUnmounted')
              => shownProbe' = probeSeq']_vars

\* What a request that got this response is to leave in data and error
FetchOutcome(response) ==
    IF FetchFailed(response)
    THEN [data |-> <<>>, failed |-> TRUE]
    ELSE [data |-> response.body, failed |-> FALSE]

\* C30 (fetch results are not stale): when fetches overlap, loading stays
\* true while any fetch is in flight, and once all have completed data and
\* error are those of the fetch issued last.
C30_FetchNotStale ==
    /\ fetches # {} => loading
    /\ (fetches = {} /\ fetchSeq > 0)
          => /\ shownFetch = fetchSeq
             /\ predData = FetchOutcome(fetchResp[1]).data
             /\ (predError # NULL) = FetchOutcome(fetchResp[1]).failed

====
